---- MODULE Spec2Model ----
(***************************************************************************)
(* RHiD-Discord: a Discord front-end (apps/discord-bot/main.py) that       *)
(* throttles and serialises triggers, and the browser automation           *)
(* (apps/rhid_runner/automator.py) it runs on a worker thread.             *)
(*                                                                         *)
(* Spec     the front-end: any number of button presses and /baterponto    *)
(*          commands handled concurrently on the event loop; the           *)
(*          automation run is one step from start to outcome.              *)
(* FairSpec Spec with the event loop's and the worker's progress.          *)
(* PressSpec the button alone, pressed any number of times: handlers that  *)
(*          returned make room for new ones.                               *)
(* RunSpec  one trigger whose run_rhid_punch invocation is followed stage  *)
(*          by stage (launch, credentials, login, form, click, teardown),  *)
(*          or one direct call of run_rhid_punch.                          *)
(* ClickSpec one call of robust_click followed step by step with time.     *)
(* WaitSpec every routine that waits or loops, called once, with the       *)
(*          program's progress.                                            *)
(***************************************************************************)
EXTENDS Integers, Sequences, FiniteSets, TLC

(* ------------------------------ bounds --------------------------------- *)
MaxTasks == 2
NumUsers == 2
TicksPerSecond == 2
WindowSeconds == 2
Horizon == 5
MaxLatency == 1

Tasks == 1..MaxTasks
Users == 1..NumUsers

(* main.py:24 reads the window from the environment (default "60"); the    *)
(* model is checked for the configured value WindowSeconds.                *)
RATE_LIMIT_SECONDS == WindowSeconds

(* time.time() is a float number of seconds; the model counts it in ticks  *)
(* of 1/TicksPerSecond second.                                             *)
RateLimitTicks == RATE_LIMIT_SECONDS * TicksPerSecond

(* The wall clock at start-up is far beyond one window after the epoch.    *)
BootTime == RateLimitTicks
MaxClock == BootTime + Horizon

VARIABLES
    clock,            \* time.time(), in ticks
    recent,           \* main.py recent: user id -> time of last accepted press
    automation_lock,  \* main.py automation_lock: [locked, waiters]
    h,                \* the interaction handlers (coroutines), one per trigger
    lastPress         \* observer: user -> time of the last accepted press, -1 if none

VARIABLES
    env,        \* automator.py configuration read from the environment
    rpc,        \* where the run_rhid_punch invocation is
    attempt,    \* _build_driver: launch attempts made so far
    cur,        \* _build_driver: data_path, cache_dir, user_data_dir
    last_err,   \* _build_driver: last_err
    driver,     \* run_rhid_punch: driver ("none" is None)
    tmp_dirs,   \* driver._tmp_dirs
    fs,         \* directories that exist under CHROME_USER_DATA_BASE
    mk,         \* number of mkdtemp calls made so far
    allocated,  \* every directory this invocation created
    failure,    \* the exception that ended the flow, "none" if none did
    clicks,     \* robust_click calls on the final control, and how many succeeded
    ret,        \* what the invocation returns or raises
    log,        \* the records the flow has logged (log.info, log.warning), in order
    flow        \* the waits and loops of the flow followed with time (see below)

fvars == <<clock, recent, automation_lock, h, lastPress>>
bvars == <<attempt, cur, last_err, fs, mk, allocated>>
rvars == <<env, rpc, attempt, cur, last_err, driver, tmp_dirs, fs, mk, allocated,
           failure, clicks, ret, log, flow>>
vars == <<clock, recent, automation_lock, h, lastPress, env, rpc, attempt, cur, last_err,
          driver, tmp_dirs, fs, mk, allocated, failure, clicks, ret, log, flow>>
ovars == <<clock, recent, automation_lock, h, lastPress, env, rpc, attempt, cur, last_err,
           driver, tmp_dirs, fs, mk, allocated, failure, clicks, ret, log>>

(* ------------------------------ outcomes ------------------------------- *)
NoOutcome == [kind |-> "none", cls |-> "none", msg |-> "none", cause |-> "none",
              trigger |-> "none"]

DRY_RUN_TEXT == "DRY RUN: cheguei ao botao final habilitado; clique final nao executado."
PUNCHED_TEXT == "Ponto registrado."

(* automator.py:617: the payload returned by run_rhid_punch.               *)
ResultPayload(resultado, trig) ==
    [kind |-> "result", cls |-> "dict", msg |-> resultado, cause |-> "none",
     trigger |-> trig]

(* ------------------------------ throttle ------------------------------- *)
(* One time for everybody: the latest press accepted from any user.        *)
RecentGetAny(u) ==
    IF DOMAIN recent = {} THEN 0
    ELSE CHOOSE m \in {recent[x] : x \in DOMAIN recent} :
             \A x \in DOMAIN recent : recent[x] <= m

(* main.py:239  recent.get(user_id, 0)                                     *)
RecentGet(u) == IF u \in DOMAIN recent THEN recent[u] ELSE 0

ThrottledInclusive(n, l) == n - l <= RateLimitTicks

(* main.py:240  now - last < RATE_LIMIT_SECONDS                            *)
Throttled(n, l) == n - l < RateLimitTicks

(* main.py:242  int(RATE_LIMIT_SECONDS - (now - last)); int() truncates,   *)
(* and the operand is positive on this branch.                             *)
WaitSeconds(n, l) == (RateLimitTicks - (n - l)) \div TicksPerSecond

(* --------------------------- automation_lock --------------------------- *)
LockFreeIgnored == TRUE

(* main.py:35 asyncio.Lock; acquire() takes the lock at once only when it  *)
(* is free and nobody is queued before the caller.                         *)
LockFree == ~automation_lock.locked /\ automation_lock.waiters = <<>>

(* --------------------------- initial state ----------------------------- *)
IdleHandler ==
    [pc |-> "idle", kind |-> "none", user |-> 0, early |-> FALSE,
     wait |-> -1, trigger |-> "none", outcome |-> NoOutcome,
     results |-> 0, errors |-> 0]

FrontInit ==
    /\ clock = BootTime
    /\ recent = <<>>
    /\ automation_lock = [locked |-> FALSE, waiters |-> <<>>]
    /\ h = [t \in Tasks |-> IdleHandler]
    /\ lastPress = [u \in Users |-> -1]

(* Whether a trigger of user u arriving now comes less than one window     *)
(* after u's last accepted press.                                          *)
InsideWindow(u) == lastPress[u] >= 0 /\ clock - lastPress[u] < RateLimitTicks

(* Handlers are numbered in order of arrival. *)
NextToArrive(t) == h[t].pc = "idle" /\ \A p \in 1..(t - 1) : h[p].pc # "idle"

(* User ids are numbered in order of first appearance: a trigger comes     *)
(* from a user seen before or from the next new one.                       *)
Known(u) == u = 1 \/ (u - 1) \in DOMAIN recent \/ \E p \in Tasks : h[p].user = u - 1

(* --------------------------- PunchView.punch --------------------------- *)
RecentPutLater(u, now) == recent

RecentPutAll(u, now) == [x \in (DOMAIN recent) \cup {u} |-> now]

(* main.py:246  recent[user_id] = now                                      *)
RecentPut(u, now) ==
    [x \in (DOMAIN recent) \cup {u} |-> IF x = u THEN now ELSE recent[x]]

RunOnLoop == "loop"

(* main.py:220-226  loop.run_in_executor(None, _run_blocking): the         *)
(* blocking run occupies a worker thread of the default executor.          *)
RunThread == "executor"

(* The event loop runs handler code only while no blocking call occupies   *)
(* it.                                                                     *)
LoopBlocked == RunThread = "loop" /\ \E r \in Tasks : h[r].pc = "running"

(* A gatekeeper that notes the time of a rejected press as well.           *)
PunchArriveStamps(t, u) ==
    /\ ~LoopBlocked
    /\ NextToArrive(t)
    /\ Known(u)
    /\ LET now == clock
           last == RecentGet(u)
       IN IF Throttled(now, last)
          THEN /\ h' = [h EXCEPT ![t] = [@ EXCEPT !.pc = "rejected", !.kind = "button",
                                            !.user = u,
                                            !.early = InsideWindow(u),
                                            !.wait = WaitSeconds(now, last)]]
               /\ recent' = RecentPut(u, now)
               /\ UNCHANGED lastPress
          ELSE /\ recent' = RecentPut(u, now)
               /\ h' = [h EXCEPT ![t] = [@ EXCEPT !.pc = "deferred", !.kind = "button",
                                            !.user = u,
                                            !.early = InsideWindow(u),
                                            !.trigger = "button"]]
               /\ lastPress' = [lastPress EXCEPT ![u] = clock]
    /\ UNCHANGED <<clock, automation_lock>>

(* main.py:237-248. Everything up to the first await runs without          *)
(* suspension: read the clock and the user's entry, then either reply      *)
(* with the wait time and return, or record the press and defer.           *)
(* early records whether the trigger came inside the user's window.        *)
PunchArrive(t, u) ==
    /\ ~LoopBlocked
    /\ NextToArrive(t)
    /\ Known(u)
    /\ LET now == clock
           last == RecentGet(u)
       IN IF Throttled(now, last)
          THEN /\ h' = [h EXCEPT ![t] = [@ EXCEPT !.pc = "rejected", !.kind = "button",
                                            !.user = u,
                                            !.early = InsideWindow(u),
                                            !.wait = WaitSeconds(now, last)]]
               /\ UNCHANGED <<recent, lastPress>>
          ELSE /\ recent' = RecentPut(u, now)
               /\ h' = [h EXCEPT ![t] = [@ EXCEPT !.pc = "deferred", !.kind = "button",
                                            !.user = u,
                                            !.early = InsideWindow(u),
                                            !.trigger = "button"]]
               /\ lastPress' = [lastPress EXCEPT ![u] = clock]
    /\ UNCHANGED <<clock, automation_lock>>

(* main.py:295-296 baterponto: defers at once; it reads neither the clock  *)
(* nor recent.                                                             *)
SlashArrive(t, u) ==
    /\ ~LoopBlocked
    /\ NextToArrive(t)
    /\ Known(u)
    /\ h' = [h EXCEPT ![t] = [@ EXCEPT !.pc = "deferred", !.kind = "slash",
                                 !.user = u,
                                 !.early = InsideWindow(u),
                                 !.trigger = "slash"]]
    /\ UNCHANGED <<clock, recent, automation_lock, lastPress>>

EnterOrReject(t) ==
    /\ h[t].pc = "deferred"
    /\ IF LockFree
       THEN /\ automation_lock' = [automation_lock EXCEPT !.locked = TRUE]
            /\ h' = [h EXCEPT ![t].pc = "running"]
       ELSE /\ automation_lock' = automation_lock
            /\ h' = [h EXCEPT ![t].pc = "rejected"]
    /\ UNCHANGED <<clock, recent, lastPress>>

(* main.py:250-251 and 298-299: async with automation_lock, then the run   *)
(* is handed to the executor. A busy lock queues the handler.              *)
Enter(t) ==
    /\ ~LoopBlocked
    /\ h[t].pc = "deferred"
    /\ IF LockFree
       THEN /\ automation_lock' = [automation_lock EXCEPT !.locked = TRUE]
            /\ h' = [h EXCEPT ![t].pc = "running"]
       ELSE /\ automation_lock' = [automation_lock EXCEPT !.waiters = Append(@, t)]
            /\ h' = [h EXCEPT ![t].pc = "waiting"]
    /\ UNCHANGED <<clock, recent, lastPress>>

(* asyncio.Lock: a released lock goes to the first queued handler.         *)
Wake(t) ==
    /\ ~LoopBlocked
    /\ h[t].pc = "waiting"
    /\ ~automation_lock.locked
    /\ automation_lock.waiters # <<>>
    /\ Head(automation_lock.waiters) = t
    /\ automation_lock' = [locked |-> TRUE, waiters |-> Tail(automation_lock.waiters)]
    /\ h' = [h EXCEPT ![t].pc = "running"]
    /\ UNCHANGED <<clock, recent, lastPress>>

(* main.py:226: the executor future completes with the run's outcome.      *)
WorkerDone(t, out) ==
    /\ h[t].pc = "running"
    /\ h' = [h EXCEPT ![t] = [@ EXCEPT !.pc = "finished", !.outcome = out]]
    /\ UNCHANGED <<clock, recent, automation_lock, lastPress>>

ReplyResultAlso(o, sendOk) == [results |-> 1, errors |-> IF o.kind = "error" THEN 1 ELSE 0]

(* main.py:253-261 and 301-309: what the handler sends once the await      *)
(* returns: the rendered result, or on any exception (the run's, or one    *)
(* raised while rendering or sending the result) the error text.           *)
Reply(o, sendOk) ==
    IF o.kind = "result" /\ sendOk
    THEN [results |-> 1, errors |-> 0]
    ELSE [results |-> 0, errors |-> 1]

(* A handler that lets go of the lock only when the run returned.          *)
ResumeKeepsLockOnError(t, sendOk) ==
    /\ ~LoopBlocked
    /\ h[t].pc = "finished"
    /\ h[t].kind \in {"button", "slash"}
    /\ automation_lock' = [automation_lock EXCEPT
                              !.locked = IF h[t].outcome.kind = "result" THEN FALSE ELSE @]
    /\ h' = [h EXCEPT ![t] = [@ EXCEPT !.pc = "done",
                                 !.results = @ + Reply(h[t].outcome, sendOk).results,
                                 !.errors = @ + Reply(h[t].outcome, sendOk).errors]]
    /\ UNCHANGED <<clock, recent, lastPress>>

(* A handler that gives the user's press back when the run failed.         *)
ResumeRollsBack(t, sendOk) ==
    /\ ~LoopBlocked
    /\ h[t].pc = "finished"
    /\ h[t].kind \in {"button", "slash"}
    /\ automation_lock' = [automation_lock EXCEPT !.locked = FALSE]
    /\ h' = [h EXCEPT ![t] = [@ EXCEPT !.pc = "done",
                                 !.results = @ + Reply(h[t].outcome, sendOk).results,
                                 !.errors = @ + Reply(h[t].outcome, sendOk).errors]]
    /\ recent' = IF h[t].kind = "button" /\ h[t].outcome.kind = "error"
                 THEN [x \in (DOMAIN recent) \ {h[t].user} |-> recent[x]]
                 ELSE recent
    /\ UNCHANGED <<clock, lastPress>>

(* main.py:250-261: leaving the async with block releases the lock, then   *)
(* the handler replies.                                                    *)
Resume(t, sendOk) ==
    /\ ~LoopBlocked
    /\ h[t].pc = "finished"
    /\ h[t].kind \in {"button", "slash"}
    /\ automation_lock' = [automation_lock EXCEPT !.locked = FALSE]
    /\ h' = [h EXCEPT ![t] = [@ EXCEPT !.pc = "done",
                                 !.results = @ + Reply(h[t].outcome, sendOk).results,
                                 !.errors = @ + Reply(h[t].outcome, sendOk).errors]]
    /\ UNCHANGED <<clock, recent, lastPress>>

(* main.py:245 and 257, 261: the handler returned, after its rejection     *)
(* reply or after the reply that follows its run; the coroutine is gone    *)
(* and a later interaction is served by a new one.                         *)
Retire(t) ==
    /\ h[t].pc \in {"rejected", "done"}
    /\ h' = [h EXCEPT ![t] = IdleHandler]
    /\ UNCHANGED <<clock, recent, automation_lock, lastPress>>

(* Time passes; it is read only when a trigger arrives.                    *)
Tick ==
    /\ clock < MaxClock
    /\ \E t \in Tasks : h[t].pc = "idle"
    /\ clock' = clock + 1
    /\ UNCHANGED <<recent, automation_lock, h, lastPress>>

(* ============================ run_rhid_punch =========================== *)
(* automator.py:619-624: both except clauses raise RuntimeError from e.    *)
Wrap(e) ==
    IF e = "TimeoutException"
    THEN [kind |-> "error", cls |-> "RuntimeError",
          msg |-> "Falha ao registrar ponto: Timeout", cause |-> e, trigger |-> "none"]
    ELSE [kind |-> "error", cls |-> "RuntimeError",
          msg |-> "Falha ao registrar ponto", cause |-> e, trigger |-> "none"]

NoDirs == [data |-> 0, cache |-> 0, profile |-> 0]

(* automator.py:357, 362, 370: [data_path, cache_dir] + ([user_data_dir]   *)
(* if user_data_dir else [])                                               *)
DirList(d) == {d.data, d.cache} \cup (IF d.profile # 0 THEN {d.profile} ELSE {})

(* automator.py:343-345 and 363-365: three _mktemp_under_base calls, the   *)
(* third only with RHID_USE_USER_DATA; mkdtemp never returns a used name.  *)
MkDirs == [data |-> mk + 1, cache |-> mk + 2,
           profile |-> IF env.userdata THEN mk + 3 ELSE 0]

LaunchAttemptsThree == <<1, 2, 3>>

(* automator.py:348  for attempt in (1, 2)                                 *)
LaunchAttempts == <<1, 2>>

SessionErrors == {"SessionNotCreatedException", "WebDriverException"}

MarkerStates == {"unset", "absent", "present"}

DefaultEnv == [email |-> TRUE, password |-> TRUE, url |-> TRUE, dry |-> FALSE,
               userdata |-> FALSE, marker |-> "unset"]

RunInitWith(e) ==
    /\ env = e
    /\ rpc = "idle"
    /\ attempt = 0
    /\ cur = NoDirs
    /\ last_err = "none"
    /\ driver = "none"
    /\ tmp_dirs = {}
    /\ fs = {}
    /\ mk = 0
    /\ allocated = {}
    /\ failure = "none"
    /\ clicks = [calls |-> 0, done |-> 0]
    /\ ret = NoOutcome
    /\ log = <<>>

(* The flow raised e: the except clauses of run_rhid_punch wrap it, and    *)
(* the finally block is next (automator.py:619-625).                       *)
Raise(e) ==
    /\ failure' = e
    /\ ret' = Wrap(e)
    /\ rpc' = "finally"

(* automator.py:571-575 and 343-347: the invocation starts on the worker   *)
(* and _build_driver allocates the first directories.                      *)
BuildAlloc ==
    /\ h[1].pc = "running"
    /\ rpc = "idle"
    /\ cur' = MkDirs
    /\ fs' = fs \cup DirList(MkDirs)
    /\ allocated' = allocated \cup DirList(MkDirs)
    /\ mk' = mk + Cardinality(DirList(MkDirs))
    /\ last_err' = "none"
    /\ attempt' = 0
    /\ rpc' = "launch"
    /\ UNCHANGED <<env, driver, tmp_dirs, failure, clicks, ret, log>>

(* automator.py:348-358: webdriver.Chrome() succeeds.                      *)
LaunchOk ==
    /\ rpc = "launch"
    /\ attempt' = attempt + 1
    /\ driver' = "live"
    /\ tmp_dirs' = DirList(cur)
    /\ rpc' = "creds"
    /\ log' = Append(log, "launch")
    /\ UNCHANGED <<env, cur, last_err, fs, mk, allocated, failure, clicks, ret>>

(* automator.py:359-366 and 372-373: a session-creation failure removes    *)
(* the directories, makes new ones and sleeps; the loop then retries or,   *)
(* when it is exhausted, last_err is raised.                               *)
LaunchSessionError(e) ==
    /\ rpc = "launch"
    /\ e \in SessionErrors
    /\ attempt' = attempt + 1
    /\ last_err' = e
    /\ cur' = MkDirs
    /\ fs' = (fs \ DirList(cur)) \cup DirList(MkDirs)
    /\ allocated' = allocated \cup DirList(MkDirs)
    /\ mk' = mk + Cardinality(DirList(MkDirs))
    /\ IF attempt + 1 < Len(LaunchAttempts)
       THEN rpc' = "launch" /\ UNCHANGED <<failure, ret>>
       ELSE Raise(e)
    /\ log' = Append(log, "launch")
    /\ UNCHANGED <<env, driver, tmp_dirs, clicks>>

(* automator.py:367-373: any other exception removes the directories and   *)
(* leaves the loop.                                                        *)
LaunchOtherError ==
    /\ rpc = "launch"
    /\ attempt' = attempt + 1
    /\ last_err' = "Exception"
    /\ fs' = fs \ DirList(cur)
    /\ Raise("Exception")
    /\ log' = Append(log, "launch")
    /\ UNCHANGED <<env, cur, mk, allocated, driver, tmp_dirs, clicks>>

(* automator.py:576-579: the credentials are read after _build_driver      *)
(* returned.                                                               *)
CheckCreds ==
    /\ rpc = "creds"
    /\ IF ~env.email \/ ~env.password
       THEN Raise("RuntimeError")
       ELSE rpc' = "login" /\ UNCHANGED <<failure, ret>>
    /\ UNCHANGED <<env, driver, tmp_dirs, clicks, log>>
    /\ UNCHANGED bvars

LoginErrors == {"TimeoutException", "ElementClickInterceptedException", "Exception"}

TriggerOfNoDefault(arg) == arg

(* automator.py:566  def run_rhid_punch(trigger: str = "manual", ...): a   *)
(* call that passes no trigger gets the default.                           *)
TriggerOf(arg) == IF arg = "none" THEN "manual" ELSE arg

MarkerAlwaysSeen == TRUE

(* automator.py:131-139 maybe_already_logged: False without                *)
(* POST_LOGIN_SELECTOR, True when the marker is present within the wait,   *)
(* False on any exception.                                                 *)
maybe_already_logged == env.marker = "present"

(* automator.py:387-402 _login up to the form: without a login URL it      *)
(* raises; loading the page or finding one of the three controls may       *)
(* raise; a session that is already logged in returns at once.             *)
Login(o) ==
    /\ rpc = "login"
    /\ o \in {"ok"} \cup LoginErrors
    /\ IF ~env.url
       THEN Raise("RuntimeError") /\ UNCHANGED log
       ELSE IF o # "ok"
            THEN Raise(o) /\ UNCHANGED log
            ELSE IF maybe_already_logged
                 THEN /\ rpc' = "dashboard"
                      /\ log' = Append(log, "login_already")
                      /\ UNCHANGED <<failure, ret>>
                 ELSE /\ rpc' = "type_email"
                      /\ UNCHANGED <<failure, ret, log>>
    /\ UNCHANGED <<env, driver, tmp_dirs, clicks>>
    /\ UNCHANGED bvars

(* automator.py:404-405  type_with_retry(driver, (By.ID, "email"), email)  *)
TypeEmail(ok) ==
    /\ rpc = "type_email"
    /\ IF ok
       THEN /\ rpc' = "type_password"
            /\ log' = Append(log, "typed_email")
            /\ UNCHANGED <<failure, ret>>
       ELSE Raise("Exception") /\ UNCHANGED log
    /\ UNCHANGED <<env, driver, tmp_dirs, clicks>>
    /\ UNCHANGED bvars

(* automator.py:406-407  type_with_retry(driver, (By.ID, "password"), senha) *)
TypePassword(ok) ==
    /\ rpc = "type_password"
    /\ IF ok
       THEN /\ rpc' = "submit"
            /\ log' = Append(log, "typed_password")
            /\ UNCHANGED <<failure, ret>>
       ELSE Raise("Exception") /\ UNCHANGED log
    /\ UNCHANGED <<env, driver, tmp_dirs, clicks>>
    /\ UNCHANGED bvars

(* automator.py:409-410  click_with_retry(driver, LOGIN_BTN_SELECTORS, ...) *)
Submit(ok) ==
    /\ rpc = "submit"
    /\ IF ok
       THEN /\ rpc' = "post_login"
            /\ log' = Append(log, "submit_clicked")
            /\ UNCHANGED <<failure, ret>>
       ELSE Raise("ElementClickInterceptedException") /\ UNCHANGED log
    /\ UNCHANGED <<env, driver, tmp_dirs, clicks>>
    /\ UNCHANGED bvars

(* automator.py:412-419: the wait for the dashboard after the submit; its  *)
(* TimeoutException is caught and logged as a warning.                     *)
PostLogin(seen) ==
    /\ rpc = "post_login"
    /\ rpc' = "dashboard"
    /\ log' = Append(log, IF seen THEN "post_login_ok" ELSE "warn_post_login")
    /\ UNCHANGED <<env, driver, tmp_dirs, failure, clicks, ret>>
    /\ UNCHANGED bvars

(* automator.py:432-456 _registrar_ponto, step 1: the dashboard button is  *)
(* clicked when found (click_with_retry raising when every retry fails);   *)
(* when it is not found a warning is logged.                               *)
Dashboard(o) ==
    /\ rpc = "dashboard"
    /\ o \in {"clicked", "notfound", "retried", "retry_failed"}
    /\ IF o = "retry_failed"
       THEN /\ Raise("ElementClickInterceptedException")
            /\ log' = Append(log, "dashboard_search")
       ELSE /\ rpc' = "wait_url"
            /\ log' = log \o <<"dashboard_search",
                               CASE o = "clicked" -> "dashboard_click"
                                 [] o = "retried" -> "dashboard_click_retry"
                                 [] o = "notfound" -> "warn_dashboard_not_found">>
            /\ UNCHANGED <<failure, ret>>
    /\ UNCHANGED <<env, driver, tmp_dirs, clicks>>
    /\ UNCHANGED bvars

WaitUrlOrFail(seen) ==
    /\ rpc = "wait_url"
    /\ IF seen
       THEN /\ rpc' = "locate"
            /\ log' = log \o <<"url_wait", "url_ok">>
            /\ UNCHANGED <<failure, ret>>
       ELSE /\ Raise("TimeoutException")
            /\ log' = log \o <<"url_wait", "warn_url_timeout">>
    /\ UNCHANGED <<env, driver, tmp_dirs, clicks>>
    /\ UNCHANGED bvars

(* automator.py:458-459 and 378-385 _wait_url_contains: True when the URL  *)
(* shows the form route, False with a warning on TimeoutException; the     *)
(* caller ignores the value.                                               *)
WaitUrl(seen) ==
    /\ rpc = "wait_url"
    /\ rpc' = "locate"
    /\ log' = log \o <<"url_wait", IF seen THEN "url_ok" ELSE "warn_url_timeout">>
    /\ UNCHANGED <<env, driver, tmp_dirs, failure, clicks, ret>>
    /\ UNCHANGED bvars

LocateOrGoOn(found) ==
    /\ rpc = "locate"
    /\ rpc' = "enable"
    /\ log' = log \o (IF found THEN <<"final_search", "final_located">>
                       ELSE <<"final_search">>)
    /\ UNCHANGED <<env, driver, tmp_dirs, failure, clicks, ret>>
    /\ UNCHANGED bvars

(* automator.py:461-488: the final control is looked for until the         *)
(* deadline; not finding it raises RuntimeError.                           *)
Locate(found) ==
    /\ rpc = "locate"
    /\ IF found
       THEN /\ rpc' = "enable"
            /\ log' = log \o <<"final_search", "final_located">>
            /\ UNCHANGED <<failure, ret>>
       ELSE /\ Raise("RuntimeError")
            /\ log' = Append(log, "final_search")
    /\ UNCHANGED <<env, driver, tmp_dirs, clicks>>
    /\ UNCHANGED bvars

DryRunIgnored == FALSE

(* automator.py:515  if PUNCH_DRY_RUN                                      *)
DryRunStops == env.dry

EnableThenConfirm(ok) ==
    /\ rpc = "enable"
    /\ IF ~ok
       THEN /\ Raise("RuntimeError")
            /\ log' = Append(log, "enable_wait")
       ELSE /\ rpc' = "confirm"
            /\ log' = log \o <<"enable_wait", "final_enabled">>
            /\ UNCHANGED <<failure, ret>>
    /\ UNCHANGED <<env, driver, tmp_dirs, clicks>>
    /\ UNCHANGED bvars

(* automator.py:490-517 and 584-617: the control becomes enabled or the    *)
(* wait times out (RuntimeError); an enabled control in dry-run mode ends  *)
(* the flow with the dry-run text, and the payload is built.               *)
Enable(ok) ==
    /\ rpc = "enable"
    /\ IF ~ok
       THEN /\ Raise("RuntimeError")
            /\ log' = Append(log, "enable_wait")
       ELSE IF DryRunStops
            THEN /\ ret' = ResultPayload(DRY_RUN_TEXT, TriggerOf(h[1].trigger))
                 /\ rpc' = "finally"
                 /\ log' = log \o <<"enable_wait", "final_enabled", "dry_run">>
                 /\ UNCHANGED failure
            ELSE /\ rpc' = "click"
                 /\ log' = log \o <<"enable_wait", "final_enabled">>
                 /\ UNCHANGED <<failure, ret>>
    /\ UNCHANGED <<env, driver, tmp_dirs, clicks>>
    /\ UNCHANGED bvars

(* automator.py:520-531: robust_click on the freshly located control; any  *)
(* exception leads to the fallback.                                        *)
Click(ok) ==
    /\ rpc = "click"
    /\ clicks' = [calls |-> clicks.calls + 1,
                  done |-> clicks.done + (IF ok THEN 1 ELSE 0)]
    /\ rpc' = IF ok THEN "confirm" ELSE "fallback"
    /\ log' = IF ok THEN Append(log, "final_click") ELSE log
    /\ UNCHANGED <<env, driver, tmp_dirs, failure, ret>>
    /\ UNCHANGED bvars

(* A fallback loop without its break: after a click that worked it goes    *)
(* on to the next locator and clicks again.                                *)
FallbackNoBreak(o) ==
    /\ rpc = "fallback"
    /\ o \in {"ok", "absent", "unclickable"}
    /\ clicks' = [calls |-> clicks.calls + (CASE o = "absent" -> 0
                                               [] o = "ok" -> 2
                                               [] o = "unclickable" -> 1),
                  done |-> clicks.done + (IF o = "ok" THEN 2 ELSE 0)]
    /\ IF o = "ok"
       THEN /\ rpc' = "confirm"
            /\ log' = Append(log, "final_click_fallback")
            /\ UNCHANGED <<failure, ret>>
       ELSE /\ Raise(IF o = "absent" THEN "TimeoutException"
                     ELSE "ElementNotInteractableException")
            /\ UNCHANGED log
    /\ UNCHANGED <<env, driver, tmp_dirs>>
    /\ UNCHANGED bvars

(* automator.py:532-540: the fallback waits for the first locator and      *)
(* calls robust_click once more; a timeout of the wait or a failed click   *)
(* is re-raised.                                                           *)
Fallback(o) ==
    /\ rpc = "fallback"
    /\ o \in {"ok", "absent", "unclickable"}
    /\ clicks' = [calls |-> clicks.calls + (IF o = "absent" THEN 0 ELSE 1),
                  done |-> clicks.done + (IF o = "ok" THEN 1 ELSE 0)]
    /\ IF o = "ok"
       THEN /\ rpc' = "confirm"
            /\ log' = Append(log, "final_click_fallback")
            /\ UNCHANGED <<failure, ret>>
       ELSE /\ Raise(IF o = "absent" THEN "TimeoutException"
                     ELSE "ElementNotInteractableException")
            /\ UNCHANGED log
    /\ UNCHANGED <<env, driver, tmp_dirs>>
    /\ UNCHANGED bvars

ConfirmOrFail(o) ==
    /\ rpc = "confirm"
    /\ o \in {"element", "text", "none"}
    /\ IF o = "none"
       THEN Raise("TimeoutException") /\ log' = Append(log, "warn_no_confirmation")
       ELSE /\ ret' = ResultPayload(PUNCHED_TEXT, TriggerOf(h[1].trigger))
            /\ rpc' = "finally"
            /\ log' = Append(log, IF o = "element" THEN "confirm_element"
                                  ELSE "confirm_text")
            /\ UNCHANGED failure
    /\ UNCHANGED <<env, driver, tmp_dirs, clicks>>
    /\ UNCHANGED bvars

(* automator.py:542-561 and 584-617: a confirmation element, a success     *)
(* text or neither (a warning); in each case the flow returns              *)
(* "Ponto registrado." and the payload is built.                           *)
Confirm(o) ==
    /\ rpc = "confirm"
    /\ o \in {"element", "text", "none"}
    /\ ret' = ResultPayload(PUNCHED_TEXT, TriggerOf(h[1].trigger))
    /\ rpc' = "finally"
    /\ log' = Append(log, CASE o = "element" -> "confirm_element"
                            [] o = "text" -> "confirm_text"
                            [] o = "none" -> "warn_no_confirmation")
    /\ UNCHANGED <<env, driver, tmp_dirs, failure, clicks>>
    /\ UNCHANGED bvars

QuitOnSuccessOnly == driver # "none" /\ ret.kind = "result"

(* automator.py:626  if driver                                             *)
HasDriver == driver # "none"

(* automator.py:625-632: the finally block quits the browser and removes   *)
(* driver._tmp_dirs when there is a driver; then the invocation returns    *)
(* or raises.                                                              *)
Finally ==
    /\ rpc = "finally"
    /\ IF HasDriver
       THEN driver' = "quit" /\ fs' = fs \ tmp_dirs
       ELSE UNCHANGED <<driver, fs>>
    /\ rpc' = IF ret.kind = "result" THEN "returned" ELSE "raised"
    /\ UNCHANGED <<env, attempt, cur, last_err, tmp_dirs, mk, allocated,
                   failure, clicks, ret, log>>

(* automator.py:566: run_rhid_punch called by itself, with no arguments:   *)
(* no handler, no lock, no trigger passed.                                 *)
DirectCall ==
    /\ h[1].pc = "idle"
    /\ h' = [h EXCEPT ![1] = [@ EXCEPT !.pc = "running", !.kind = "direct"]]
    /\ UNCHANGED <<clock, recent, automation_lock, lastPress>>

(* The direct caller has the payload or the exception.                     *)
DirectReturn ==
    /\ h[1].pc = "finished"
    /\ h[1].kind = "direct"
    /\ h' = [h EXCEPT ![1] = [@ EXCEPT !.pc = "done"]]
    /\ UNCHANGED <<clock, recent, automation_lock, lastPress>>

(* main.py:226: the worker's outcome completes the handler's await.        *)
RunDone ==
    /\ rpc \in {"returned", "raised"}
    /\ WorkerDone(1, ret)
    /\ UNCHANGED rvars

(* ========================= the waits and loops ========================= *)
(* The routines of automator.py that wait or loop, followed step by step   *)
(* with time. flow.clock counts ticks of 50 ms (the shortest sleep of the  *)
(* source) since the routine now running was called; a call to the browser *)
(* adds a latency of 0..MaxLatency ticks; a time.sleep is a step of its    *)
(* own: flow.nap holds the ticks the routine is about to sleep.            *)
Ticks(ms) == ms \div 50

Latencies == 0..MaxLatency

(* automator.py:41  TIMEOUT_SECONDS (default "35")                         *)
TIMEOUT_SECONDS == 35

IdleFlow ==
    [pc |-> "idle", clock |-> 0, nap |-> 0, end |-> 0, wend |-> 0,
     timeout |-> 0, overlay |-> "none", shown |-> TRUE, page |-> "accepts",
     cleared |-> FALSE, seenClear |-> FALSE, tried |-> <<>>, exc |-> "none",
     i |-> 0, j |-> 0, attempts |-> 0, n |-> 0, err |-> "none"]

(* What robust_click is called on: an overlay that matches                 *)
(* OVERLAY_SELECTORS, one that does not, or none; an element that is       *)
(* displayed and enabled or not; a page that accepts the click, one on     *)
(* which any click strategy may fail, or one on which the calls to the     *)
(* browser before the click may raise.                                     *)
Scenes ==
    [overlay : {"none", "matched", "other"}, shown : BOOLEAN,
     page : {"accepts", "refuses"}]
        \cup [overlay : {"other"}, shown : {TRUE}, page : {"breaks"}]

(* automator.py:529 robust_click(driver, final_btn, timeout=10) and        *)
(* automator.py:535 robust_click(driver, el, timeout=6)                    *)
ClickTimeouts == {Ticks(10 * 1000), Ticks(6 * 1000)}

(* automator.py:215-216  end = time.time() + timeout; last_exc = None      *)
RcStart ==
    /\ flow.pc = "rc_start" /\ flow.nap = 0
    /\ flow' = [flow EXCEPT !.pc = "rc_loop", !.end = flow.clock + flow.timeout,
                            !.exc = "none", !.tried = <<>>]

COULD_NOT_CLICK == "ElementNotInteractableException: Nao foi possivel clicar"

(* automator.py:269  raise last_exc or ElementNotInteractableException(...) *)
RaisedError(f) == IF f.exc # "none" THEN f.exc ELSE COULD_NOT_CLICK

(* automator.py:218 and 269: the loop test; past the deadline the routine  *)
(* raises.                                                                 *)
RcLoop ==
    /\ flow.pc = "rc_loop" /\ flow.nap = 0
    /\ IF flow.clock < flow.end
       THEN flow' = [flow EXCEPT !.pc = "rc_scroll", !.tried = <<>>]
       ELSE flow' = [flow EXCEPT !.pc = "rc_raised", !.err = RaisedError(flow)]

(* automator.py:220 scrollIntoView; an exception is caught at 263-266.     *)
RcScroll(lat, e) ==
    /\ flow.pc = "rc_scroll" /\ flow.nap = 0
    /\ e \in {"none", "StaleElementReferenceException"}
    /\ flow.page # "breaks" => e = "none"
    /\ IF e = "none"
       THEN flow' = [flow EXCEPT !.pc = "wo_start", !.clock = @ + lat]
       ELSE flow' = [flow EXCEPT !.pc = "rc_retry", !.clock = @ + lat, !.exc = e]

(* automator.py:171 (called at 221 with timeout=2)                         *)
WoStart ==
    /\ flow.pc = "wo_start" /\ flow.nap = 0
    /\ flow' = [flow EXCEPT !.pc = "wo_loop", !.wend = flow.clock + Ticks(2 * 1000)]

(* automator.py:172: the loop test of _wait_no_overlays; at the deadline   *)
(* it returns without an error.                                            *)
WoLoop ==
    /\ flow.pc = "wo_loop" /\ flow.nap = 0
    /\ IF flow.clock < flow.wend
       THEN flow' = [flow EXCEPT !.pc = "wo_scan"]
       ELSE flow' = [flow EXCEPT !.pc = "rc_settle", !.wend = 0]

(* automator.py:174-182: an overlay is present when a node matching        *)
(* OVERLAY_SELECTORS is displayed.                                         *)
OverlayPresent(f) == f.overlay = "matched"

NoPollSleep == Ticks(0)

(* automator.py:187  time.sleep(0.15)                                      *)
PollSleep == Ticks(150)

(* automator.py:173-187: one scan; no overlay returns, an overlay or an    *)
(* exception (swallowed) sleeps and loops.                                 *)
WoScan(lat, failed) ==
    /\ flow.pc = "wo_scan" /\ flow.nap = 0
    /\ flow.page # "breaks" => ~failed
    /\ IF ~failed /\ ~OverlayPresent(flow)
       THEN flow' = [flow EXCEPT !.pc = "rc_settle", !.clock = @ + lat, !.wend = 0]
       ELSE flow' = [flow EXCEPT !.pc = "wo_loop", !.clock = @ + lat, !.nap = PollSleep]

(* A pass that goes on to the hit test without looking at the element.     *)
RcSettleBlind ==
    /\ flow.pc = "rc_settle" /\ flow.nap = 0
    /\ flow' = [flow EXCEPT !.pc = "rc_hit1", !.nap = Ticks(50)]

(* automator.py:222-226: the settle sleep, then the element must be        *)
(* displayed and enabled, else sleep 0.2 s and continue.                   *)
RcSettle ==
    /\ flow.pc = "rc_settle" /\ flow.nap = 0
    /\ IF flow.shown
       THEN flow' = [flow EXCEPT !.pc = "rc_hit1", !.nap = Ticks(50)]
       ELSE flow' = [flow EXCEPT !.pc = "rc_loop", !.nap = Ticks(50) + Ticks(200)]

PointNeverHits(f) == FALSE

(* automator.py:189-205 _point_hits_element: the element's centre point    *)
(* hits the element itself, that is, nothing covers it.                    *)
PointHits(f) == f.overlay \in {"none", "gone"}

(* automator.py:228-231: the first hit test; a covered element gets the    *)
(* nudge (whose exception is caught at 263-266) and a sleep of 0.1 s.      *)
RcHit1(lat, nudgeFails) ==
    /\ flow.pc = "rc_hit1" /\ flow.nap = 0
    /\ flow.page # "breaks" => ~nudgeFails
    /\ IF PointHits(flow)
       THEN flow' = [flow EXCEPT !.pc = "rc_try", !.clock = @ + lat,
                                 !.seenClear = @ \/ (flow.overlay = "gone")]
       ELSE IF nudgeFails
            THEN flow' = [flow EXCEPT !.pc = "rc_retry", !.clock = @ + lat,
                                      !.exc = "WebDriverException",
                                      !.seenClear = @ \/ (flow.overlay = "gone")]
            ELSE flow' = [flow EXCEPT !.pc = "rc_hit2", !.clock = @ + lat,
                                      !.nap = Ticks(100),
                                      !.seenClear = @ \/ (flow.overlay = "gone")]

(* automator.py:232-234: the second hit test; still covered sleeps 0.15 s  *)
(* and continues.                                                          *)
RcHit2(lat) ==
    /\ flow.pc = "rc_hit2" /\ flow.nap = 0
    /\ IF PointHits(flow)
       THEN flow' = [flow EXCEPT !.pc = "rc_try", !.clock = @ + lat,
                                 !.seenClear = @ \/ (flow.overlay = "gone")]
       ELSE flow' = [flow EXCEPT !.pc = "rc_loop", !.clock = @ + lat, !.nap = Ticks(150),
                                 !.seenClear = @ \/ (flow.overlay = "gone")]

StrategiesJsFirst == <<"js", "native", "pointer">>

(* automator.py:236-262: 1) el.click(), 2) ActionChains, 3) JS dispatch    *)
Strategies == <<"native", "pointer", "js">>

(* automator.py:239, 246, 259: the handler around the native click         *)
(* catches the intercepted and not-interactable exceptions only; the       *)
(* handlers around the other two catch every exception.                    *)
Caught(s, o) == s # "native" \/ o = "refused"

(* automator.py:236-262: the next strategy is tried; success returns, a    *)
(* caught failure goes on to the next strategy, an uncaught one and the    *)
(* failure of the last one lead to the sleep at 267.                       *)
RcTry(o) ==
    /\ flow.pc = "rc_try" /\ flow.nap = 0
    /\ o \in {"ok", "refused", "error"}
    /\ flow.page # "refuses" => o = "ok"
    /\ LET s == Strategies[Len(flow.tried) + 1]
       IN  IF o = "ok"
           THEN flow' = [flow EXCEPT !.pc = "rc_returned",
                                     !.tried = Append(@, [s |-> s, ok |-> TRUE])]
           ELSE flow' = [flow EXCEPT
                    !.pc = IF Caught(s, o) /\ Len(flow.tried) + 1 < Len(Strategies)
                           THEN "rc_try" ELSE "rc_retry",
                    !.exc = IF o = "refused" THEN "ElementClickInterceptedException"
                            ELSE "WebDriverException",
                    !.tried = Append(@, [s |-> s, ok |-> FALSE])]

(* automator.py:267  time.sleep(0.2)                                       *)
RcRetry ==
    /\ flow.pc = "rc_retry" /\ flow.nap = 0
    /\ flow' = [flow EXCEPT !.pc = "rc_loop", !.nap = Ticks(200)]

(* time.sleep returns after the time asked for.                            *)
Nap ==
    /\ flow.nap > 0
    /\ flow' = [flow EXCEPT !.clock = @ + flow.nap, !.nap = 0]

InRobustClick ==
    flow.pc \in {"rc_loop", "rc_scroll", "wo_start", "wo_loop", "wo_scan", "rc_settle",
                 "rc_hit1", "rc_hit2", "rc_try", "rc_retry"}

(* The page: an overlay goes away while robust_click runs. cleared records *)
(* whether that was before the deadline of the call; seenClear records     *)
(* whether a hit test was made after it.                                   *)
OverlayClears ==
    /\ InRobustClick
    /\ flow.overlay \in {"matched", "other"}
    /\ flow' = [flow EXCEPT !.overlay = "gone", !.cleared = flow.clock < flow.end]

(* automator.py:118-129 find_first_visible: each locator is waited for in  *)
(* turn; the first one visible returns, and when none is the last          *)
(* exception is raised. flow.n is the number of locators.                  *)
FfTry(found) ==
    /\ flow.pc = "ff_try" /\ flow.nap = 0
    /\ IF found
       THEN flow' = [flow EXCEPT !.pc = "ff_returned"]
       ELSE flow' = [flow EXCEPT !.j = @ + 1, !.exc = "TimeoutException",
                                 !.pc = IF flow.j + 1 < flow.n THEN "ff_try"
                                        ELSE "ff_raised",
                                 !.err = IF flow.j + 1 < flow.n THEN "none"
                                         ELSE "TimeoutException"]

(* A pass that lets a non-stale exception out of the routine at once.      *)
TwTryRaises(o, relocated) ==
    /\ flow.pc = "tw_try" /\ flow.nap = 0
    /\ o \in {"ok", "stale", "error"}
    /\ LET pass == [s |-> IF relocated THEN "type_relocated" ELSE "type", ok |-> o = "ok"]
       IN CASE o = "ok" ->
                   flow' = [flow EXCEPT !.pc = "tw_returned", !.tried = Append(@, pass)]
            [] o = "stale" ->
                   flow' = [flow EXCEPT !.i = @ + 1, !.nap = Ticks(200),
                                        !.tried = Append(@, pass),
                                        !.exc = "StaleElementReferenceException",
                                        !.pc = IF flow.i + 1 < flow.attempts THEN "tw_try"
                                               ELSE "tw_fallback"]
            [] o = "error" ->
                   flow' = [flow EXCEPT !.exc = "TimeoutException", !.pc = "tw_raised",
                                        !.err = "TimeoutException",
                                        !.tried = Append(@, pass)]

(* automator.py:143-156 type_with_retry, one pass of for _ in              *)
(* range(attempts): the field is located, clicked and cleared (located,    *)
(* clicked and cleared once more when the first click or clear found it    *)
(* stale: relocated), the text is typed and the routine returns; a stale   *)
(* element that gets out of the pass sleeps 0.2 s and goes to the next     *)
(* pass; any other exception breaks out of the loop. After the loop comes  *)
(* the fallback. tried records every pass.                                 *)
TwTry(o, relocated) ==
    /\ flow.pc = "tw_try" /\ flow.nap = 0
    /\ o \in {"ok", "stale", "error"}
    /\ LET pass == [s |-> IF relocated THEN "type_relocated" ELSE "type", ok |-> o = "ok"]
       IN CASE o = "ok" ->
                   flow' = [flow EXCEPT !.pc = "tw_returned", !.tried = Append(@, pass)]
            [] o = "stale" ->
                   flow' = [flow EXCEPT !.i = @ + 1, !.nap = Ticks(200),
                                        !.tried = Append(@, pass),
                                        !.exc = "StaleElementReferenceException",
                                        !.pc = IF flow.i + 1 < flow.attempts THEN "tw_try"
                                               ELSE "tw_fallback"]
            [] o = "error" ->
                   flow' = [flow EXCEPT !.exc = "TimeoutException", !.pc = "tw_fallback",
                                        !.tried = Append(@, pass)]

(* automator.py:157-167: the value is set by script and the input and      *)
(* change events are dispatched; an exception there raises last_exc or     *)
(* the exception itself. tried records the fallback.                       *)
TwFallback(ok) ==
    /\ flow.pc = "tw_fallback" /\ flow.nap = 0
    /\ IF ok
       THEN flow' = [flow EXCEPT !.pc = "tw_returned",
                                 !.tried = Append(@, [s |-> "set_value", ok |-> TRUE])]
       ELSE flow' = [flow EXCEPT !.pc = "tw_raised",
                                 !.tried = Append(@, [s |-> "set_value", ok |-> FALSE]),
                                 !.err = IF flow.exc # "none" THEN flow.exc
                                         ELSE "TimeoutException"]

(* automator.py:271-286 click_with_retry: for every attempt, for every     *)
(* locator: a click that works returns; a stale or intercepted element     *)
(* sleeps 0.2 s and continues, any other exception continues; when every   *)
(* attempt is used up the last exception is raised.                        *)
CwTry(o) ==
    /\ flow.pc = "cw_try" /\ flow.nap = 0
    /\ o \in {"ok", "intercepted", "error"}
    /\ IF o = "ok"
       THEN flow' = [flow EXCEPT !.pc = "cw_returned"]
       ELSE LET lastLocator == flow.j + 1 = flow.n
                lastAttempt == flow.i + 1 = flow.attempts
                e == IF o = "intercepted" THEN "ElementClickInterceptedException"
                     ELSE "TimeoutException"
            IN  flow' = [flow EXCEPT
                    !.exc = e,
                    !.nap = IF o = "intercepted" THEN Ticks(200) ELSE 0,
                    !.j = IF lastLocator THEN 0 ELSE @ + 1,
                    !.i = IF lastLocator THEN @ + 1 ELSE @,
                    !.pc = IF lastLocator /\ lastAttempt THEN "cw_raised" ELSE "cw_try",
                    !.err = IF lastLocator /\ lastAttempt THEN e ELSE "none"]

(* automator.py:471-473  deadline = time.time() + TIMEOUT_SECONDS          *)
LcStart ==
    /\ flow.pc = "lc_start" /\ flow.nap = 0
    /\ flow' = [flow EXCEPT !.pc = "lc_loop",
                            !.end = flow.clock + Ticks(TIMEOUT_SECONDS * 1000)]

(* automator.py:473 and 484-487: the loop test of the search for the final *)
(* control; past the deadline RuntimeError is raised.                      *)
LcLoop ==
    /\ flow.pc = "lc_loop" /\ flow.nap = 0
    /\ IF flow.clock < flow.end
       THEN flow' = [flow EXCEPT !.pc = "lc_try", !.j = 0]
       ELSE flow' = [flow EXCEPT !.pc = "lc_raised", !.err = "RuntimeError"]

(* automator.py:474-483: each of the locators is waited for up to 2 s; one *)
(* that is present ends the search, a timeout or another exception goes to *)
(* the next, and after the last the loop sleeps 0.3 s.                     *)
LcTry(lat, o) ==
    /\ flow.pc = "lc_try" /\ flow.nap = 0
    /\ o \in {"found", "timeout", "error"}
    /\ IF o = "found"
       THEN flow' = [flow EXCEPT !.pc = "lc_returned", !.clock = @ + lat]
       ELSE flow' = [flow EXCEPT
                !.clock = @ + lat + (IF o = "timeout" THEN Ticks(2 * 1000) ELSE 0),
                !.j = @ + 1,
                !.nap = IF flow.j + 1 = flow.n THEN Ticks(300) ELSE 0,
                !.pc = IF flow.j + 1 = flow.n THEN "lc_loop" ELSE "lc_try"]

(* WebDriverWait(driver, t).until(...) as used at automator.py:111, 380,   *)
(* 413, 507, 543 and 549: it returns the value or raises TimeoutException  *)
(* once t seconds have passed.                                             *)
WwWait(ok) ==
    /\ flow.pc = "ww_wait" /\ flow.nap = 0
    /\ IF ok
       THEN flow' = [flow EXCEPT !.pc = "ww_returned"]
       ELSE flow' = [flow EXCEPT !.pc = "ww_raised", !.err = "TimeoutException",
                                 !.clock = @ + flow.timeout]

(* The calls of the flow, with what each routine is called with:           *)
(* robust_click (automator.py:529, 535); find_first_visible on the two     *)
(* e-mail or password locators or the three login-button locators          *)
(* (400-402, 59-71); type_with_retry with attempts=3 (404, 406);           *)
(* click_with_retry on three locators with attempts=3 (409) or attempts=2  *)
(* (453); the search over the four final locators (462-467, 471); a wait   *)
(* of TIMEOUT_SECONDS (111, 380, 413, 507).                                *)
Calls ==
    {[IdleFlow EXCEPT !.pc = "rc_start", !.timeout = to, !.overlay = sc.overlay,
                      !.shown = sc.shown, !.page = sc.page] :
        sc \in Scenes, to \in ClickTimeouts}
    \cup {[IdleFlow EXCEPT !.pc = "ff_try", !.n = n] : n \in {2, 3}}
    \cup {[IdleFlow EXCEPT !.pc = "tw_try", !.attempts = 3]}
    \cup {[IdleFlow EXCEPT !.pc = "cw_try", !.attempts = a, !.n = 3] : a \in {2, 3}}
    \cup {[IdleFlow EXCEPT !.pc = "lc_start", !.n = 4]}
    \cup {[IdleFlow EXCEPT !.pc = "ww_wait", !.timeout = Ticks(TIMEOUT_SECONDS * 1000)]}

Terminated ==
    flow.pc \in {"rc_returned", "rc_raised", "ff_returned", "ff_raised", "tw_returned",
                 "tw_raised", "cw_returned", "cw_raised", "lc_returned", "lc_raised",
                 "ww_returned", "ww_raised"}

(* ============================ specifications =========================== *)
(* In Spec the run is not followed inside: it ends with the payload or     *)
(* with a wrapped error.                                                   *)
RunOutcomes(t) ==
    {ResultPayload(IF env.dry THEN DRY_RUN_TEXT ELSE PUNCHED_TEXT, h[t].trigger)}
        \cup {Wrap("TimeoutException")}

RunEnds(t) == \E out \in RunOutcomes(t) : WorkerDone(t, out)

Init == FrontInit /\ RunInitWith(DefaultEnv) /\ flow = IdleFlow

Next ==
    \/ \E t \in Tasks, u \in Users : PunchArrive(t, u) /\ UNCHANGED rvars
    \/ \E t \in Tasks, u \in Users : SlashArrive(t, u) /\ UNCHANGED rvars
    \/ \E t \in Tasks : Enter(t) /\ UNCHANGED rvars
    \/ \E t \in Tasks : Wake(t) /\ UNCHANGED rvars
    \/ \E t \in Tasks : RunEnds(t) /\ UNCHANGED rvars
    \/ \E t \in Tasks, sendOk \in BOOLEAN : Resume(t, sendOk) /\ UNCHANGED rvars
    \/ Tick /\ UNCHANGED rvars

Spec == Init /\ [][Next]_vars

(* The event loop resumes every handler that can run, and every run ends.  *)
FairSpec ==
    /\ Spec
    /\ \A t \in Tasks : WF_vars(Enter(t) /\ UNCHANGED rvars)
    /\ \A t \in Tasks : WF_vars(Wake(t) /\ UNCHANGED rvars)
    /\ \A t \in Tasks : WF_vars(RunEnds(t) /\ UNCHANGED rvars)
    /\ \A t \in Tasks : WF_vars((\E sendOk \in BOOLEAN : Resume(t, sendOk)) /\ UNCHANGED rvars)

(* The button alone, with the handlers that returned making room for new   *)
(* ones: any number of presses arrives, MaxTasks of them being handled at  *)
(* a time. A handler that returned after sending its result is forgotten   *)
(* before anything else happens; one that rejected its press or reported   *)
(* an error is forgotten at any later time, but before a second one stays  *)
(* behind and before time passes.                                          *)
NoneReturned == \A t \in Tasks : h[t].pc \notin {"rejected", "done"}

FewReturned ==
    /\ \A t \in Tasks : ~(h[t].pc = "done" /\ h[t].errors = 0)
    /\ Cardinality({t \in Tasks : h[t].pc \in {"rejected", "done"}}) <= 1

PressNext ==
    \/ \E t \in Tasks, u \in Users : FewReturned /\ PunchArrive(t, u) /\ UNCHANGED rvars
    \/ \E t \in Tasks : FewReturned /\ Enter(t) /\ UNCHANGED rvars
    \/ \E t \in Tasks : FewReturned /\ Wake(t) /\ UNCHANGED rvars
    \/ \E t \in Tasks : FewReturned /\ RunEnds(t) /\ UNCHANGED rvars
    \/ \E t \in Tasks, sendOk \in BOOLEAN :
          FewReturned /\ Resume(t, sendOk) /\ UNCHANGED rvars
    \/ \E t \in Tasks : Retire(t) /\ UNCHANGED rvars
    \/ NoneReturned /\ Tick /\ UNCHANGED rvars

PressSpec == Init /\ [][PressNext]_vars

RunInit ==
    /\ FrontInit
    /\ \E e \in [email : BOOLEAN, password : BOOLEAN, url : BOOLEAN,
                 dry : BOOLEAN, userdata : BOOLEAN, marker : MarkerStates] :
           RunInitWith(e)
    /\ flow = IdleFlow

RunNext ==
    \/ \E u \in Users : PunchArrive(1, u) /\ UNCHANGED rvars
    \/ \E u \in Users : SlashArrive(1, u) /\ UNCHANGED rvars
    \/ Enter(1) /\ UNCHANGED rvars
    \/ DirectCall /\ UNCHANGED rvars
    \/ BuildAlloc /\ UNCHANGED <<fvars, flow>>
    \/ LaunchOk /\ UNCHANGED <<fvars, flow>>
    \/ \E e \in SessionErrors : LaunchSessionError(e) /\ UNCHANGED <<fvars, flow>>
    \/ LaunchOtherError /\ UNCHANGED <<fvars, flow>>
    \/ CheckCreds /\ UNCHANGED <<fvars, flow>>
    \/ \E o \in {"ok"} \cup LoginErrors : Login(o) /\ UNCHANGED <<fvars, flow>>
    \/ \E ok \in BOOLEAN : TypeEmail(ok) /\ UNCHANGED <<fvars, flow>>
    \/ \E ok \in BOOLEAN : TypePassword(ok) /\ UNCHANGED <<fvars, flow>>
    \/ \E ok \in BOOLEAN : Submit(ok) /\ UNCHANGED <<fvars, flow>>
    \/ \E seen \in BOOLEAN : PostLogin(seen) /\ UNCHANGED <<fvars, flow>>
    \/ \E o \in {"clicked", "notfound", "retried", "retry_failed"} : Dashboard(o) /\ UNCHANGED <<fvars, flow>>
    \/ \E seen \in BOOLEAN : WaitUrl(seen) /\ UNCHANGED <<fvars, flow>>
    \/ \E found \in BOOLEAN : Locate(found) /\ UNCHANGED <<fvars, flow>>
    \/ \E ok \in BOOLEAN : Enable(ok) /\ UNCHANGED <<fvars, flow>>
    \/ \E ok \in BOOLEAN : Click(ok) /\ UNCHANGED <<fvars, flow>>
    \/ \E o \in {"ok", "absent", "unclickable"} : Fallback(o) /\ UNCHANGED <<fvars, flow>>
    \/ \E o \in {"element", "text", "none"} : Confirm(o) /\ UNCHANGED <<fvars, flow>>
    \/ Finally /\ UNCHANGED <<fvars, flow>>
    \/ RunDone
    \/ \E sendOk \in BOOLEAN : Resume(1, sendOk) /\ UNCHANGED rvars
    \/ DirectReturn /\ UNCHANGED rvars

RunSpec == RunInit /\ [][RunNext]_vars

(* ClickSpec: one call of robust_click, with either timeout of the source, *)
(* on each scene.                                                          *)
ClickInit ==
    /\ FrontInit
    /\ RunInitWith(DefaultEnv)
    /\ \E sc \in Scenes, to \in ClickTimeouts :
           flow = [IdleFlow EXCEPT !.pc = "rc_start", !.timeout = to,
                                   !.overlay = sc.overlay, !.shown = sc.shown,
                                   !.page = sc.page]

ClickNext ==
    \/ RcStart /\ UNCHANGED ovars
    \/ RcLoop /\ UNCHANGED ovars
    \/ \E lat \in Latencies,
          e \in {"none", "StaleElementReferenceException"} :
            RcScroll(lat, e) /\ UNCHANGED ovars
    \/ WoStart /\ UNCHANGED ovars
    \/ WoLoop /\ UNCHANGED ovars
    \/ \E lat \in Latencies, failed \in BOOLEAN : WoScan(lat, failed) /\ UNCHANGED ovars
    \/ RcSettle /\ UNCHANGED ovars
    \/ \E lat \in Latencies, nudgeFails \in BOOLEAN :
            RcHit1(lat, nudgeFails) /\ UNCHANGED ovars
    \/ \E lat \in Latencies : RcHit2(lat) /\ UNCHANGED ovars
    \/ \E o \in {"ok", "refused", "error"} : RcTry(o) /\ UNCHANGED ovars
    \/ RcRetry /\ UNCHANGED ovars
    \/ Nap /\ UNCHANGED ovars
    \/ OverlayClears /\ UNCHANGED ovars

ClickSpec == ClickInit /\ [][ClickNext]_vars

(* WaitSpec: every routine of the flow that waits or loops, called once.   *)
(* WaitProg is the steps of the program (all but the page's own            *)
(* OverlayClears): one that can be taken is taken, that is, sleeps return  *)
(* and calls to the browser return or raise.                               *)
WaitInit ==
    /\ FrontInit
    /\ RunInitWith(DefaultEnv)
    /\ flow \in Calls

WaitProg ==
    \/ RcStart
    \/ RcLoop
    \/ \E lat \in Latencies, e \in {"none", "StaleElementReferenceException"} :
            RcScroll(lat, e)
    \/ WoStart
    \/ WoLoop
    \/ \E lat \in Latencies, failed \in BOOLEAN : WoScan(lat, failed)
    \/ RcSettle
    \/ \E lat \in Latencies, nudgeFails \in BOOLEAN : RcHit1(lat, nudgeFails)
    \/ \E lat \in Latencies : RcHit2(lat)
    \/ \E o \in {"ok", "refused", "error"} : RcTry(o)
    \/ RcRetry
    \/ Nap
    \/ \E found \in BOOLEAN : FfTry(found)
    \/ \E o \in {"ok", "stale", "error"}, relocated \in BOOLEAN : TwTry(o, relocated)
    \/ \E ok \in BOOLEAN : TwFallback(ok)
    \/ \E o \in {"ok", "intercepted", "error"} : CwTry(o)
    \/ LcStart
    \/ LcLoop
    \/ \E lat \in Latencies, o \in {"found", "timeout", "error"} : LcTry(lat, o)
    \/ \E ok \in BOOLEAN : WwWait(ok)

WaitNext ==
    \/ ClickNext
    \/ \E found \in BOOLEAN : FfTry(found) /\ UNCHANGED ovars
    \/ \E o \in {"ok", "stale", "error"}, relocated \in BOOLEAN :
          TwTry(o, relocated) /\ UNCHANGED ovars
    \/ \E ok \in BOOLEAN : TwFallback(ok) /\ UNCHANGED ovars
    \/ \E o \in {"ok", "intercepted", "error"} : CwTry(o) /\ UNCHANGED ovars
    \/ LcStart /\ UNCHANGED ovars
    \/ LcLoop /\ UNCHANGED ovars
    \/ \E lat \in Latencies, o \in {"found", "timeout", "error"} :
            LcTry(lat, o) /\ UNCHANGED ovars
    \/ \E ok \in BOOLEAN : WwWait(ok) /\ UNCHANGED ovars

WaitSpec == WaitInit /\ [][WaitNext]_vars /\ WF_vars(WaitProg /\ UNCHANGED ovars)

(* ================================ claims =============================== *)
InFlight == {t \in Tasks : h[t].pc = "running"}
LockHolders == {t \in Tasks : h[t].pc \in {"running", "finished"}}

(* C1: at most one automation run is in flight at any time; a run is in    *)
(* flight only while automation_lock is held, and the lock stays with the  *)
(* handler of that run until the run has returned or raised.               *)
C1_OneRunInFlight ==
    /\ Cardinality(InFlight) <= 1
    /\ Cardinality(LockHolders) <= 1
    /\ LockHolders # {} => automation_lock.locked

(* C1 witness: one run is in flight while another accepted trigger waits.  *)
C1_Witness ==
    \E a, b \in Tasks : a # b /\ h[a].pc = "running" /\ h[b].pc = "waiting"

(* C2: a press by user u arriving less than RATE_LIMIT_SECONDS after u's   *)
(* last accepted press is rejected, and the wait it reports is the         *)
(* remaining window in whole seconds; a press arriving once the window     *)
(* has elapsed (or with no accepted press before) is accepted.             *)
C2_ThrottleWindow ==
    [][\A t \in Tasks :
          (h[t].pc = "idle" /\ h'[t].kind = "button") =>
              LET u == h'[t].user
                  remaining == RateLimitTicks - (clock - lastPress[u])
              IN IF lastPress[u] >= 0 /\ remaining > 0
                 THEN /\ h'[t].pc = "rejected"
                      /\ h'[t].wait * TicksPerSecond <= remaining
                      /\ remaining < (h'[t].wait + 1) * TicksPerSecond
                      /\ lastPress' = lastPress
                 ELSE /\ h'[t].pc = "deferred"
                      /\ h'[t].wait = -1
                      /\ lastPress'[u] = clock]_vars

(* C2 witness: a press rejected with less than one second of the window    *)
(* left, after an accepted press of the same user.                         *)
C2_Witness ==
    \E a, b \in Tasks :
        /\ a < b
        /\ h[a].kind = "button" /\ h[a].pc # "rejected"
        /\ h[b].kind = "button" /\ h[b].pc = "rejected"
        /\ h[a].user = h[b].user
        /\ h[b].wait = 0

(* C3: a /baterponto command issued by a user less than the throttle       *)
(* window after that user's last accepted attempt starts no automation     *)
(* run.                                                                    *)
C3_CommandThrottled ==
    \A t \in Tasks :
        (h[t].kind = "slash" /\ h[t].early) =>
            h[t].pc \notin {"running", "finished", "done"}

(* C7: a trigger accepted while automation_lock is held is never rejected  *)
(* on account of the lock; it waits and, every run ending, it gets the     *)
(* lock and its own run starts.                                            *)
C7_WaiterEventuallyRuns ==
    /\ \A t \in Tasks : (h[t].pc = "waiting") ~> (h[t].pc = "running")
    /\ [][\A t \in Tasks : h[t].pc \in {"deferred", "waiting"} =>
                              h'[t].pc \in {"deferred", "waiting", "running"}]_vars

(* C7 witness: the lock was released and its first queued handler is       *)
(* about to take it.                                                       *)
C7_Witness ==
    \E t \in Tasks :
        /\ h[t].pc = "waiting"
        /\ ~automation_lock.locked
        /\ automation_lock.waiters # <<>>
        /\ Head(automation_lock.waiters) = t
        /\ \E p \in Tasks : h[p].pc = "done"

RunOver == rpc \in {"returned", "raised"}

(* C4: once run_rhid_punch has returned or raised, none of the directories *)
(* made during the invocation, by any launch attempt, still exists.        *)
C4_NoDirectoryLeft == RunOver => allocated \cap fs = {}

(* C5: with RHID_EMAIL or RHID_PASSWORD missing, no launch attempt is made *)
(* and no browser session is created in the invocation.                    *)
C5_NoSessionWithoutCredentials ==
    (~env.email \/ ~env.password) => (attempt = 0 /\ driver = "none")

(* C6 as stated: with PUNCH_DRY_RUN set the final click is never attempted *)
(* and every run reports the dry-run outcome.                              *)
C6_DryRunAlwaysReports ==
    env.dry =>
        /\ clicks.calls = 0
        /\ RunOver => (ret.kind = "result" /\ ret.msg = DRY_RUN_TEXT)

(* C6 amended: with PUNCH_DRY_RUN set the final click is never attempted,  *)
(* neither by robust_click nor by the fallback, and every run that ends    *)
(* without a fatal error reports the dry-run outcome; a run that returns   *)
(* has seen the final control enabled.                                     *)
C6_DryRunNeverClicks ==
    env.dry =>
        /\ clicks.calls = 0
        /\ rpc \notin {"click", "fallback", "confirm"}
        /\ (RunOver /\ failure = "none") =>
               (rpc = "returned" /\ ret.kind = "result" /\ ret.msg = DRY_RUN_TEXT)
        /\ ret.kind = "result" => ret.msg = DRY_RUN_TEXT

(* C6 witness: a dry run got as far as the enabled final control and       *)
(* returned its payload.                                                   *)
C6_Witness ==
    env.dry /\ rpc = "returned" /\ ret.msg = DRY_RUN_TEXT /\ driver = "quit"

(* C8: when a browser session was created in the invocation, the browser   *)
(* has been quit by the time the invocation returns or raises.             *)
C8_BrowserQuitOnExit ==
    /\ RunOver => driver # "live"
    /\ h[1].pc \in {"finished", "done"} => driver # "live"
    /\ driver = "quit" => rpc \in {"returned", "raised"}

(* C8 witness: a run that created a session and then failed has quit it.   *)
C8_Witness == rpc = "raised" /\ driver = "quit" /\ failure # "none"

C10_OneWrappedErrorReply ==
    (failure # "none" /\ h[1].kind \in {"button", "slash"}) =>
        /\ ret.kind = "error" /\ ret.cls = "RuntimeError" /\ ret.cause = failure
        /\ ret.msg \in {"Falha ao registrar ponto", "Falha ao registrar ponto: Timeout"}
        /\ h[1].pc \in {"finished", "done"} => h[1].outcome = ret
        /\ h[1].results = 0
        /\ h[1].errors = (IF h[1].pc = "done" THEN 1 ELSE 0)

(* C10 witness: a run that timed out was answered with one error reply.    *)
C10_Witness ==
    /\ failure = "TimeoutException"
    /\ h[1].pc = "done"
    /\ h[1].errors = 1

(* ---------------------------- run log helpers -------------------------- *)
Has(e) == \E i \in 1..Len(log) : log[i] = e
Pos(e) == IF Has(e) THEN CHOOSE i \in 1..Len(log) : log[i] = e ELSE 0

(* C11 (as stated): every run is started with one of the tags "button",    *)
(* "command", "manual": the button handler passes "button", the slash      *)
(* command passes "command", a direct call gets the default "manual".      *)
C11_TagsAsStated ==
    rpc # "idle" =>
        /\ TriggerOf(h[1].trigger) \in {"button", "command", "manual"}
        /\ h[1].kind = "slash" => TriggerOf(h[1].trigger) = "command"

(* C11 (amended): every run is started with one of the tags "button",      *)
(* "slash", "manual": the button handler passes "button", the slash        *)
(* command passes "slash", a direct call that passes none gets the default *)
(* "manual"; the payload of a run that succeeds carries that tag.          *)
C11_TriggerTags ==
    LET tag == CASE h[1].kind = "button" -> "button"
                 [] h[1].kind = "slash" -> "slash"
                 [] h[1].kind = "direct" -> "manual"
                 [] OTHER -> "none"
    IN  /\ rpc # "idle" => tag \in {"button", "slash", "manual"}
        /\ (h[1].kind \in {"button", "slash"} /\ rpc # "idle") => h[1].trigger = tag
        /\ ret.kind = "result" => ret.trigger = tag

(* C11 witness: a direct call, passing no tag, returned a payload.         *)
C11_Witness ==
    h[1].kind = "direct" /\ rpc = "returned" /\ ret.trigger = "manual"

NeverAppeared == Has("final_search") /\ ~Has("final_located")
NeverEnabled == Has("enable_wait") /\ ~Has("final_enabled")

(* C14: in a run that is not a dry run, when the final control was not     *)
(* found by the deadline, or was found but did not become enabled by the   *)
(* deadline, the run ends with a fatal error and no final click is made.   *)
C14_NoControlIsFatal ==
    (~env.dry /\ (NeverAppeared \/ NeverEnabled)) =>
        /\ failure = "RuntimeError"
        /\ ret.kind = "error"
        /\ rpc \in {"finally", "raised"}
        /\ clicks.calls = 0

(* C14 witness: the control was found, never became enabled, and the run   *)
(* raised.                                                                 *)
C14_Witness ==
    ~env.dry /\ Has("final_located") /\ NeverEnabled /\ rpc = "raised"

(* C15: when neither confirmation is seen after the click, only a warning  *)
(* is logged: the run does not fail and reports "Ponto registrado.".       *)
C15_MissingConfirmationWarns ==
    Has("warn_no_confirmation") =>
        /\ failure = "none"
        /\ ret.kind = "result" /\ ret.msg = PUNCHED_TEXT
        /\ rpc \in {"finally", "returned"}
        /\ clicks.done = 1

(* C15 witness: a run without confirmation returned its payload.           *)
C15_Witness ==
    Has("warn_no_confirmation") /\ rpc = "returned" /\ h[1].pc = "done"

(* C16: the missing dashboard confirmation after login, the dashboard      *)
(* button that is not found and the form-route wait that times out are     *)
(* each only a warning: after any of them the flow goes on towards the     *)
(* search for the final control, and a run that fails after one of them    *)
(* failed at a later step.                                                 *)
C16_WarningsDoNotAbort ==
    /\ Has("warn_post_login") => (rpc = "dashboard" \/ Has("dashboard_search"))
    /\ Has("warn_dashboard_not_found") =>
            (rpc \in {"wait_url", "locate"} \/ Has("final_search"))
    /\ Has("warn_url_timeout") => (rpc = "locate" \/ Has("final_search"))
    /\ (failure # "none" /\ (Has("warn_dashboard_not_found") \/ Has("warn_url_timeout")))
            => Has("final_search")

(* C16 witness: all three warnings were logged and the final control was   *)
(* then found.                                                             *)
C16_Witness ==
    /\ Has("warn_post_login")
    /\ Has("warn_dashboard_not_found")
    /\ Has("warn_url_timeout")
    /\ Has("final_located")

(* The step of the flow a log record belongs to.                           *)
Stage(e) ==
    CASE e = "launch" -> 1
      [] e \in {"login_already", "typed_email", "typed_password", "submit_clicked",
                "post_login_ok", "warn_post_login"} -> 2
      [] e \in {"dashboard_search", "dashboard_click", "dashboard_click_retry",
                "warn_dashboard_not_found", "url_wait", "url_ok", "warn_url_timeout",
                "final_search", "final_located"} -> 3
      [] e \in {"enable_wait", "final_enabled", "dry_run"} -> 4
      [] e \in {"final_click", "final_click_fallback"} -> 5
      [] e \in {"confirm_element", "confirm_text", "warn_no_confirmation"} -> 6

(* The record that shows a step has finished.                              *)
Finishes(k) ==
    CASE k = 2 -> {"login_already", "post_login_ok", "warn_post_login"}
      [] k = 3 -> {"final_located"}
      [] k = 4 -> {"final_enabled"}
      [] k = 5 -> {"final_click", "final_click_fallback"}
      [] k = 6 -> {"confirm_element", "confirm_text", "warn_no_confirmation"}

(* C17: one run goes through launch, login, navigation, the wait for       *)
(* enablement, the click, the confirmation and the teardown in that        *)
(* order: no step starts before the one before it has finished, login      *)
(* starts only with a browser session, and the teardown comes last.        *)
C17_FixedStepOrder ==
    /\ \A i, j \in 1..Len(log) : i < j => Stage(log[i]) <= Stage(log[j])
    /\ \A j \in 1..Len(log) :
          /\ Stage(log[j]) = 2 => driver # "none"
          /\ Stage(log[j]) > 2 =>
                \E i \in 1..(j - 1) : log[i] \in Finishes(Stage(log[j]) - 1)
    /\ driver = "quit" => rpc \in {"returned", "raised"}
    /\ (rpc \in {"returned", "raised"} /\ Len(log) > 0 /\ Stage(log[Len(log)]) > 1)
            => driver = "quit"

(* C17 witness: a run went through every step and was torn down.           *)
C17_Witness ==
    /\ rpc = "returned" /\ driver = "quit"
    /\ Has("submit_clicked") /\ Has("dashboard_click") /\ Has("final_enabled")
    /\ Has("final_click") /\ Has("confirm_element")

LoginReturned ==
    rpc \in {"dashboard", "wait_url", "locate", "enable", "click", "fallback", "confirm"}
        \/ Has("dashboard_search")

(* C19: when the configured session marker is present, _login returns      *)
(* without typing into the form or submitting it; otherwise (no marker     *)
(* configured, or the marker absent) a _login that returns has typed the   *)
(* e-mail, then the password, then clicked the submit control.             *)
C19_LoginShortCircuit ==
    LoginReturned =>
        IF env.marker = "present"
        THEN /\ Has("login_already")
             /\ ~Has("typed_email") /\ ~Has("typed_password") /\ ~Has("submit_clicked")
        ELSE /\ ~Has("login_already")
             /\ 0 < Pos("typed_email")
             /\ Pos("typed_email") < Pos("typed_password")
             /\ Pos("typed_password") < Pos("submit_clicked")

(* C19 witness: with the marker present the flow went on to the dashboard  *)
(* without the form.                                                       *)
C19_Witness ==
    env.marker = "present" /\ Has("login_already") /\ Has("dashboard_click")

(* C18: while a run is in flight and holds automation_lock, a button press *)
(* by a user inside the throttle window can be handled and is rejected in  *)
(* that one step: the handler never queues on the lock, and the lock and   *)
(* the other handlers are left as they were.                               *)
C18_RejectedWhileRunning ==
    /\ [](\A t \in Tasks, u \in Users :
            ((\E r \in Tasks : h[r].pc = "running") /\ automation_lock.locked
                /\ NextToArrive(t) /\ Known(u) /\ Throttled(clock, RecentGet(u)))
            => ENABLED (PunchArrive(t, u) /\ UNCHANGED rvars))
    /\ [][\A t \in Tasks :
            h'[t].pc = "rejected" =>
                \/ h[t].pc = "rejected"
                \/ /\ h[t].pc = "idle"
                   /\ automation_lock' = automation_lock
                   /\ \A r \in Tasks \ {t} : h'[r] = h[r]]_vars

(* C18 witness: a press was rejected while the first run was still in      *)
(* flight with the lock held.                                              *)
C18_Witness ==
    /\ h[1].pc = "running" /\ automation_lock.locked
    /\ h[2].pc = "rejected" /\ h[2].early

(* C12 (as stated): robust_click on a displayed and enabled element under  *)
(* an overlay returns with the click made whenever the overlay goes away   *)
(* before the overall timeout of the call.                                 *)
C12_ClearedBeforeTimeoutClicks ==
    (flow.shown /\ flow.page = "accepts" /\ flow.overlay = "gone" /\ flow.cleared)
        => flow.pc # "rc_raised"

(* C12 (amended): robust_click on a displayed and enabled element under an *)
(* overlay returns with one click made, by the first strategy, once one of *)
(* its hit tests finds the element uncovered; it raises only when no hit   *)
(* test found it so, and the steps of the routine are scrolls, scans, hit  *)
(* tests, sleeps and clicks, never a page load.                            *)
C12_UncoveredAtHitTestClicks ==
    (flow.shown /\ flow.page = "accepts" /\ flow.overlay = "gone") =>
        /\ flow.seenClear =>
              /\ flow.pc \in {"rc_try", "rc_returned"}
              /\ flow.pc = "rc_returned" => flow.tried = <<[s |-> "native", ok |-> TRUE]>>
        /\ flow.pc = "rc_returned" => flow.seenClear
        /\ flow.pc = "rc_raised" => (~flow.seenClear /\ flow.err = COULD_NOT_CLICK)

(* C12 witness: the overlay went away before the timeout and the element   *)
(* was clicked.                                                            *)
C12_Witness ==
    /\ flow.shown /\ flow.page = "accepts" /\ flow.overlay = "gone" /\ flow.cleared
    /\ flow.pc = "rc_returned" /\ flow.clock > Ticks(2 * 1000)

(* C20 (as stated): when the three strategies have all failed and the      *)
(* routine raises, the error is the could-not-click error.                 *)
C20_ExhaustedRaisesCouldNotClick ==
    (flow.pc = "rc_raised" /\ Len(flow.tried) = 3) => flow.err = COULD_NOT_CLICK

(* C20 (amended): within one pass of the loop the strategies are tried in  *)
(* the order native click, pointer sequence, event dispatch, a later one   *)
(* only after every earlier one failed; the first success ends the         *)
(* routine; failures are retried until the overall timeout has passed, and *)
(* then the routine raises the last exception it recorded, or the          *)
(* could-not-click error when it recorded none.                            *)
C20_StrategyOrder ==
    /\ Len(flow.tried) <= 3
    /\ \A i \in 1..Len(flow.tried) :
          /\ flow.tried[i].s = <<"native", "pointer", "js">>[i]
          /\ i < Len(flow.tried) => ~flow.tried[i].ok
          /\ flow.tried[i].ok => flow.pc = "rc_returned"
    /\ flow.pc = "rc_returned" =>
          (Len(flow.tried) > 0 /\ flow.tried[Len(flow.tried)].ok)
    /\ flow.pc = "rc_raised" =>
          /\ flow.clock >= flow.end
          /\ flow.err = (IF flow.exc = "none" THEN COULD_NOT_CLICK ELSE flow.exc)
          /\ flow.tried # <<>> => flow.err # COULD_NOT_CLICK

(* C20 witness: the first two strategies failed and the third clicked.     *)
C20_Witness ==
    /\ flow.pc = "rc_returned"
    /\ Len(flow.tried) = 3
    /\ ~flow.tried[1].ok /\ ~flow.tried[2].ok /\ flow.tried[3].ok

(* C13: every routine of the flow that waits or loops, once called, ends   *)
(* by returning or by raising: the sleeps and the calls to the browser     *)
(* return, and every loop leaves at its deadline or its attempt bound.     *)
C13_EveryWaitEnds ==
    /\ <>Terminated
    /\ [](flow.pc = "rc_scroll" => flow.clock < flow.end)
    /\ []((flow.pc = "lc_try" /\ flow.j = 0) => flow.clock < flow.end)
    /\ [](flow.pc = "wo_scan" => flow.clock < flow.wend)
    /\ [](flow.pc \in {"tw_try", "cw_try"} => flow.i < flow.attempts)
    /\ [](flow.pc \in {"ff_try", "cw_try", "lc_try"} => flow.j < flow.n)

(* C13 witness: robust_click looped under an overlay that stayed until the *)
(* deadline had passed, and then raised.                                   *)
C13_Witness ==
    /\ flow.pc = "rc_raised" /\ flow.overlay = "matched"
    /\ flow.clock >= flow.end /\ flow.end = Ticks(10 * 1000)

(* The passes of type_with_retry made so far, and its fallbacks.           *)
TwPasses == SelectSeq(flow.tried, LAMBDA e : e.s \in {"type", "type_relocated"})
TwSets == SelectSeq(flow.tried, LAMBDA e : e.s = "set_value")
InTypeWithRetry == flow.pc \in {"tw_try", "tw_fallback", "tw_returned", "tw_raised"}

(* C21: type_with_retry makes at most attempts (3) typing passes, and a    *)
(* further pass only after a stale element; when no pass typed the text    *)
(* it sets the value by script exactly once, and it raises only when       *)
(* that fallback failed too.                                               *)
C21_TypeThenFallbackOnce ==
    InTypeWithRetry =>
        /\ Len(TwPasses) <= flow.attempts
        /\ (flow.pc = "tw_try" /\ Len(TwPasses) > 0) =>
               flow.exc = "StaleElementReferenceException"
        /\ Len(TwSets) <= 1
        /\ \A k \in 1..Len(flow.tried) : flow.tried[k].ok => k = Len(flow.tried)
        /\ flow.pc = "tw_fallback" =>
               /\ TwSets = <<>>
               /\ TwPasses # <<>>
               /\ \A k \in 1..Len(TwPasses) : ~TwPasses[k].ok
        /\ flow.pc = "tw_returned" =>
               /\ flow.tried[Len(flow.tried)].ok
               /\ Len(TwSets) = IF TwPasses[Len(TwPasses)].ok THEN 0 ELSE 1
        /\ flow.pc = "tw_raised" =>
               /\ Len(TwSets) = 1
               /\ ~TwSets[1].ok
               /\ \A k \in 1..Len(TwPasses) : ~TwPasses[k].ok
               /\ flow.err = flow.exc

(* C21 witness: three passes found the field stale, one of them after      *)
(* locating it again, and the fallback failed: the stale-element error     *)
(* is raised.                                                              *)
C21_Witness ==
    /\ flow.pc = "tw_raised"
    /\ Len(TwPasses) = 3
    /\ \E k \in 1..3 : TwPasses[k].s = "type_relocated"
    /\ flow.err = "StaleElementReferenceException"

(* C22: recent is written only by the gatekeeper of the button: every step *)
(* that changes it is the acceptance of a press, and that step sets the    *)
(* entry of the pressing user to the time of the press and leaves every    *)
(* other entry as it was; no step of a run, of the lock or of a reply      *)
(* changes it.                                                             *)
C22_RecentWrittenByGatekeeperOnly ==
    [][recent' # recent =>
          \E t \in Tasks :
              /\ h[t].pc = "idle"
              /\ h'[t].pc = "deferred"
              /\ h'[t].kind = "button"
              /\ \A p \in Tasks \ {t} : h'[p] = h[p]
              /\ DOMAIN recent' = (DOMAIN recent) \cup {h'[t].user}
              /\ recent'[h'[t].user] = clock
              /\ \A x \in (DOMAIN recent) \ {h'[t].user} : recent'[x] = recent[x]]_vars

(* C22 witness: two users have an entry, written at different times, and   *)
(* the run of the first one has failed and been reported since.            *)
C22_Witness ==
    /\ DOMAIN recent = {1, 2}
    /\ recent[1] < recent[2]
    /\ \E t \in Tasks : h[t].user = 1 /\ h[t].pc = "done" /\ h[t].errors = 1

(* C23: a rejected press changes nothing but its own handler, which        *)
(* replies and returns: recent and automation_lock stay as they were, the  *)
(* handler never takes the lock nor starts a run, and so every entry of    *)
(* recent is the time of that user's last accepted press, however many     *)
(* presses were rejected since.                                            *)
C23_RejectionHasNoEffect ==
    /\ [][\A t \in Tasks :
              (h[t].pc = "idle" /\ h'[t].pc = "rejected") =>
                  /\ recent' = recent
                  /\ automation_lock' = automation_lock
                  /\ \A p \in Tasks \ {t} : h'[p] = h[p]
                  /\ h'[t].trigger = "none"
                  /\ h'[t].outcome = NoOutcome]_vars
    /\ [][\A t \in Tasks : h[t].pc = "rejected" => h'[t].pc \in {"rejected", "idle"}]_vars
    /\ [](\A u \in Users : IF u \in DOMAIN recent THEN recent[u] = lastPress[u]
                                                  ELSE lastPress[u] = -1)

(* C23 witness: two presses of one user were rejected one after the other, *)
(* some time after the accepted one, and the user's entry is still the     *)
(* time of the accepted press.                                             *)
C23_Witness ==
    \E a, b \in Tasks :
        /\ a # b
        /\ h[a].pc = "rejected" /\ h[b].pc = "rejected"
        /\ h[a].user = h[b].user
        /\ recent[h[a].user] = lastPress[h[a].user]
        /\ recent[h[a].user] < clock
        /\ ~automation_lock.locked

Accepted(t) == h[t].kind = "button" /\ h[t].pc \notin {"idle", "rejected"}

(* C24: however the handlers of one user's presses interleave, a press     *)
(* arriving less than the window after an accepted press of the same user  *)
(* is never accepted: the step that accepts a press has read the user's    *)
(* entry and written the new time before any other handler runs.           *)
C24_NeverBothAccepted ==
    /\ [](\A t \in Tasks : (h[t].kind = "button" /\ h[t].early) => ~Accepted(t))
    /\ [][\A t \in Tasks :
              (h[t].pc = "idle" /\ Accepted(t)') =>
                  /\ ~Throttled(clock, RecentGet(h'[t].user))
                  /\ h'[t].user \in DOMAIN recent'
                  /\ recent'[h'[t].user] = clock
                  /\ \A p \in Tasks \ {t} : h'[p] = h[p]]_vars

(* C24 witness: a second press of the user arrived at the very time of the *)
(* accepted one, whose handler has not gone past its first await, and was  *)
(* rejected with the whole window to wait.                                 *)
C24_Witness ==
    \E a, b \in Tasks :
        /\ a # b
        /\ h[a].user = h[b].user
        /\ Accepted(a) /\ h[a].pc = "deferred"
        /\ h[b].kind = "button" /\ h[b].pc = "rejected"
        /\ h[b].wait = RATE_LIMIT_SECONDS

(* C25: automation_lock is held exactly while one handler is inside its    *)
(* async with block, its run started and not yet handed back to it; the    *)
(* handler leaves the block, and the lock is free, as soon as the run is   *)
(* handed back, whether it returned a result or raised, so that after a    *)
(* failed run the lock is there for the next trigger.                      *)
C25_LockReleasedOnEveryOutcome ==
    /\ [](automation_lock.locked <=> Cardinality(LockHolders) = 1)
    /\ [](Cardinality(LockHolders) <= 1)
    /\ [][\A t \in Tasks :
              (h[t].pc = "finished" /\ h'[t].pc # "finished") =>
                  /\ h'[t].pc = "done"
                  /\ ~automation_lock'.locked
                  /\ automation_lock'.waiters = automation_lock.waiters]_vars

(* C25 witness: the first trigger's run raised and its error was sent; the *)
(* second trigger's run is in flight.                                      *)
C25_Witness ==
    /\ h[1].pc = "done" /\ h[1].outcome.kind = "error" /\ h[1].errors = 1
    /\ h[2].pc = "running"
    /\ automation_lock.locked

(* C26: the time of an accepted press is in recent from the accepting step *)
(* on, while its handler has yet to take the lock and to start its run;    *)
(* no step removes an entry or sets it back, and a step of the lock, of    *)
(* the run or of the reply leaves recent alone; so a press of the same     *)
(* user arriving inside the window counted from the acceptance is          *)
(* rejected, whatever became of the accepted press.                        *)
C26_StampedAtAcceptanceForGood ==
    /\ [](\A t \in Tasks : Accepted(t) =>
              /\ h[t].user \in DOMAIN recent
              /\ recent[h[t].user] = lastPress[h[t].user])
    /\ [][\A u \in DOMAIN recent : u \in DOMAIN recent' /\ recent'[u] >= recent[u]]_vars
    /\ [][(\E t \in Tasks : Accepted(t) /\ h'[t].pc # h[t].pc) => recent' = recent]_vars
    /\ [][\A t \in Tasks :
              (/\ h[t].pc = "idle" /\ h'[t].kind = "button"
               /\ h'[t].user \in DOMAIN recent
               /\ clock - recent[h'[t].user] < RateLimitTicks) =>
                  h'[t].pc = "rejected"]_vars

(* C26 witness: the user's run failed and the error was reported; a press  *)
(* of the same user arriving after that, in the last second of the window  *)
(* counted from the acceptance, was rejected.                              *)
C26_Witness ==
    \E a, b \in Tasks :
        /\ a # b
        /\ h[a].user = h[b].user
        /\ h[a].kind = "button" /\ h[a].pc = "done" /\ h[a].outcome.kind = "error"
        /\ h[b].kind = "button" /\ h[b].pc = "rejected"
        /\ h[b].wait = 0
        /\ clock < recent[h[a].user] + RateLimitTicks

(* C26, the other case: the user's accepted press waited for the lock      *)
(* behind another run, and a press arriving meanwhile was rejected.        *)
C26_WaitedForLock ==
    \E a, b \in Tasks :
        /\ a # b
        /\ h[a].user = h[b].user
        /\ h[a].kind = "button" /\ h[a].pc = "waiting"
        /\ h[b].kind = "button" /\ h[b].pc = "rejected"

(* C27: robust_click returns normally on the final control at most once in *)
(* a run, and exactly once in a run that reports "Ponto registrado.": the  *)
(* fallback is entered only after the one primary call raised, it makes    *)
(* at most one call, and a call that worked is followed by no other.       *)
C27_FinalClickOnce ==
    /\ clicks.done <= 1
    /\ clicks.done <= clicks.calls /\ clicks.calls <= 2
    /\ rpc = "fallback" => (clicks.calls = 1 /\ clicks.done = 0)
    /\ Has("final_click_fallback") => (clicks.calls = 2 /\ ~Has("final_click"))
    /\ Has("final_click") => clicks.calls = 1
    /\ rpc = "confirm" => clicks.done = 1
    /\ (ret.kind = "result" /\ ret.msg = PUNCHED_TEXT) =>
           (~env.dry /\ clicks.done = 1)
    /\ (RunOver /\ clicks.done = 0) => ~(ret.kind = "result" /\ ret.msg = PUNCHED_TEXT)

(* C27 witness: the primary call raised, the fallback's call worked, and   *)
(* the run reported "Ponto registrado.".                                   *)
C27_Witness ==
    /\ rpc = "returned"
    /\ ret.kind = "result" /\ ret.msg = PUNCHED_TEXT
    /\ clicks = [calls |-> 2, done |-> 1]
    /\ Has("final_click_fallback")

(* C28: whether a press of user A is accepted depends on the time of the   *)
(* press and on A's own last accepted press only: it is rejected exactly   *)
(* when it comes less than the window after that press, and a press of     *)
(* another user B, accepted or rejected, changes neither A's entry of      *)
(* recent nor the time of A's last accepted press.                         *)
C28_ThrottlePerUser ==
    [][\A t \in Tasks :
          (h[t].pc = "idle" /\ h'[t].kind = "button") =>
              LET B == h'[t].user
              IN  /\ h'[t].pc \in {"rejected", "deferred"}
                  /\ h'[t].pc = "rejected" <=>
                         (lastPress[B] >= 0 /\ clock - lastPress[B] < RateLimitTicks)
                  /\ \A A \in Users \ {B} :
                         /\ lastPress'[A] = lastPress[A]
                         /\ A \in DOMAIN recent' <=> A \in DOMAIN recent
                         /\ A \in DOMAIN recent => recent'[A] = recent[A]]_vars

(* C28 witness: a press of one user was accepted less than the window      *)
(* after the accepted press of another, and a later press of the first     *)
(* one, still inside that user's own window, was rejected.                 *)
C28_Witness ==
    \E a, b \in Tasks :
        /\ h[a].user # h[b].user
        /\ Accepted(a)
        /\ h[b].kind = "button" /\ h[b].pc = "rejected"
        /\ lastPress[h[b].user] < lastPress[h[a].user]
        /\ lastPress[h[a].user] - lastPress[h[b].user] < RateLimitTicks
        /\ lastPress[h[b].user] >= 0

(* C29: robust_click returns only from a click strategy that completed     *)
(* without error; a strategy is tried only in a pass where the element     *)
(* was displayed and enabled and a hit test, the first one or the one      *)
(* after the nudge, found its centre uncovered; the routine raises only    *)
(* at the loop test with the deadline passed, no strategy having           *)
(* completed, and until then a pass that did not click leads back to the   *)
(* loop test.                                                              *)
C29_ReturnsOnlyAfterClick ==
    /\ [](flow.pc = "rc_returned" =>
              /\ flow.tried # <<>>
              /\ flow.tried[Len(flow.tried)].ok
              /\ flow.shown
              /\ flow.overlay \in {"none", "gone"})
    /\ [](flow.pc = "rc_raised" =>
              /\ flow.clock >= flow.end
              /\ \A k \in 1..Len(flow.tried) : ~flow.tried[k].ok)
    /\ [][(flow'.pc = "rc_try" /\ flow.pc # "rc_try") =>
              /\ flow.pc \in {"rc_hit1", "rc_hit2"}
              /\ flow.shown
              /\ flow.overlay \in {"none", "gone"}
              /\ flow'.tried = <<>>]_vars
    /\ [][(flow'.pc = "rc_hit2" /\ flow.pc # "rc_hit2") =>
              (flow.pc = "rc_hit1" /\ flow.overlay \notin {"none", "gone"})]_vars
    /\ [][(flow'.pc = "rc_returned" /\ flow.pc # "rc_returned") =>
              (flow.pc = "rc_try" /\ Len(flow'.tried) = Len(flow.tried) + 1)]_vars
    /\ [][(flow'.pc = "rc_raised" /\ flow.pc # "rc_raised") =>
              (flow.pc = "rc_loop" /\ flow.clock >= flow.end)]_vars
    /\ [][(InRobustClick /\ flow'.pc \notin {"rc_returned", "rc_raised"}) =>
              InRobustClick']_vars

(* C29 witness: the element was covered at the first passes; once the      *)
(* overlay had gone a pass tried the native click, which was refused, and  *)
(* the pointer click of the same pass went through.                        *)
C29_Witness ==
    /\ flow.pc = "rc_returned"
    /\ flow.overlay = "gone" /\ flow.shown /\ flow.page = "refuses"
    /\ flow.tried = <<[s |-> "native", ok |-> FALSE], [s |-> "pointer", ok |-> TRUE]>>
    /\ flow.clock > Ticks(2 * 1000)

====
